---- MODULE Spec2Model ----
(***************************************************************************)
(* Session / debounce state machine of the WhatsApp listing bot.           *)
(*                                                                         *)
(* The key-value store holds one session record and one debounce marker    *)
(* per sender.  Webhook invocations (inbound text, image and button        *)
(* events) and scanner runs (pollExpiredSessions) are processes; every     *)
(* await on the store or on a collaborator is one atomic step, so the      *)
(* steps of different invocations interleave freely.                       *)
(***************************************************************************)
EXTENDS Integers, Sequences, FiniteSets, TLC

\* ------------------------------------------------------------ constants
MIN_IMAGES == 5
MAX_IMAGES == 12

\* Bounds of the model.
MaxInitImages == 15
MaxInvocations == 2
MaxSeqInvocations == 2
MaxLiveEvents == 1
MaxPriceLen == 3

Senders == {"2348030000001", "2348030000002"}

\* The sender whose messages arrive at the webhook.
Inbound == {"2348030000001"}
Webhooks == {1, 2}
Scanners == {11, 12}
Procs == Webhooks \cup Scanners

Null == -1

\* ------------------------------------------------------------ characters
Digits == <<"0", "1", "2", "3", "4", "5", "6", "7", "8", "9">>

IsDigit(c) == \E i \in 1..10 : Digits[i] = c

DigitVal(c) == (CHOOSE i \in 1..10 : Digits[i] = c) - 1

\* String.prototype.toLowerCase on the letters the inputs use.
ToLower(c) ==
    CASE c = "M" -> "m"
      [] c = "K" -> "k"
      [] c = "N" -> "n"
      [] c = "G" -> "g"
      [] c = "H" -> "h"
      [] c = "E" -> "e"
      [] c = "L" -> "l"
      [] c = "P" -> "p"
      [] OTHER -> c

toLowerCase(s) == [i \in 1..Len(s) |-> ToLower(s[i])]

includes(s, c) == \E i \in 1..Len(s) : s[i] = c

\* Inbound text bodies, as sequences of characters.
TextInputs ==
    { <<"C", "a", "m", "r", "y">>,
      <<"6", "m">>,
      <<"a", "b", "c">>,
      <<"h", "e", "l", "p">> }

\* ------------------------------------------------------------ data model
NoData == [present |-> FALSE, make |-> "", price |-> Null, hero_image_index |-> 0,
           valid_listing |-> FALSE]

NoSession == [status |-> "absent", text_buffer |-> <<>>, images |-> <<>>,
              extracted_data |-> NoData, last_updated |-> 0]

\* createSession: the fresh record it saves.
NewSession == [status |-> "collecting", text_buffer |-> <<>>, images |-> <<>>,
               extracted_data |-> NoData, last_updated |-> 0]

Exists(s) == s.status # "absent"

\* What a webhook invocation found when its message arrived.
NoSnapshot == [session |-> NoSession, timer |-> "none", out |-> 0, tags |-> 0,
               lst |-> 0, kind |-> ""]

IdleLoc == [phone |-> CHOOSE s \in Inbound : TRUE, session |-> NoSession,
            buf |-> NoSession, text |-> <<>>, image |-> 0, extraction |-> NoData,
            keys |-> <<>>, expired |-> <<>>, arrived |-> "absent", trace |-> <<>>,
            before |-> NoSnapshot]

VARIABLES
    store,          \* sender -> session record (session:<phone> keys)
    timer,          \* sender -> debounce marker (timer:<phone> keys): "none", or
                    \* armed with its "full" window or a "running" one
    pc,             \* process -> position in its handler
    loc,            \* process -> local variables of its handler
    nextImage,      \* next media id the media intake hands out
    extractCalls,   \* history: arguments of every extractVehicleData call
    outbox,         \* history: every notifier call, with its outcome
    tagDeletes,     \* history: sender -> delete-by-tag requests made
    deletedByTag,   \* history: assets covered by the delete-by-tag requests
    idDeletes,      \* history: ids given to deleteImages
    listings,       \* records persisted by createListing
    now,            \* Date.now() as read by the latest saveSession
    budget          \* invocations (webhook events, scanner runs) still to start

vars == <<store, timer, pc, loc, nextImage, extractCalls, outbox, tagDeletes, deletedByTag,
          idDeletes, listings, now, budget>>

\* ------------------------------------------------------------ pure functions
\* handleTextMessage's test for "looks like a price".
LooksLikePrice(text) ==
    \/ (Len(text) > 0 /\ IsDigit(text[1]))
    \/ includes(toLowerCase(text), "m")
    \/ includes(toLowerCase(text), "k")

\* handleTextMessage's test for the help command.
IsHelpCommand(text) ==
    \/ toLowerCase(text) = <<"h", "e", "l", "p">>
    \/ toLowerCase(text) = <<"s", "t", "a", "r", "t">>

\* Number of consecutive digits of s starting at index i.
RECURSIVE DigitRun(_, _)
DigitRun(s, i) ==
    IF i <= Len(s) /\ IsDigit(s[i]) THEN 1 + DigitRun(s, i + 1) ELSE 0

\* Decimal value of the n digits of s starting at index i.
RECURSIVE DigitsValue(_, _, _)
DigitsValue(s, i, n) ==
    IF n = 0 THEN 0 ELSE 10 * DigitsValue(s, i, n - 1) + DigitVal(s[i + n - 1])

RECURSIVE Pow10(_)
Pow10(n) == IF n = 0 THEN 1 ELSE 10 * Pow10(n - 1)

\* Variant of parseFloat that yields 0 where parseFloat yields NaN.
parseFloat_ZeroForNaN(s) == [ok |-> TRUE, mant |-> 0, frac |-> 0]

\* parseFloat: the longest numeric prefix (sign, digits, fraction), as the
\* rational sign * mant / 10^frac; ok = FALSE stands for NaN.
parseFloat(s) ==
    LET sg == IF Len(s) > 0 /\ s[1] \in {"+", "-"} THEN 1 ELSE 0
        ni == DigitRun(s, sg + 1)
        dot == sg + ni + 1 <= Len(s) /\ s[sg + ni + 1] = "."
        nf == IF dot THEN DigitRun(s, sg + ni + 2) ELSE 0
        mant == DigitsValue(s, sg + 1, ni) * Pow10(nf) + DigitsValue(s, sg + ni + 2, nf)
    IN  [ok |-> ni + nf > 0,
         mant |-> IF sg = 1 /\ s[1] = "-" THEN 0 - mant ELSE mant,
         frac |-> nf]

\* Math.round(f * mult) for a parseFloat result f.
RoundScaled(f, mult) == (2 * f.mant * mult + Pow10(f.frac)) \div (2 * Pow10(f.frac))

endsWith(s, c) == Len(s) > 0 /\ s[Len(s)] = c

\* Variant of parsePrice that only knows the lower-case suffixes.
parsePrice_CaseSensitive(input) ==
    LET cleaned == SelectSeq(input,
                       LAMBDA c : ToLower(c) \notin {"\\u20a6", "n", "g", ",", " "})
        body == SubSeq(cleaned, 1, Len(cleaned) - 1)
    IN  IF endsWith(cleaned, "m") /\ parseFloat(body).ok
        THEN RoundScaled(parseFloat(body), 1000000)
        ELSE IF endsWith(cleaned, "k") /\ parseFloat(body).ok
        THEN RoundScaled(parseFloat(body), 1000)
        ELSE IF parseFloat(cleaned).ok
        THEN RoundScaled(parseFloat(cleaned), 1)
        ELSE Null

\* Variant of parsePrice without the m and k suffixes.
parsePrice_NoSuffix(input) ==
    LET cleaned == SelectSeq(input,
                       LAMBDA c : ToLower(c) \notin {"\\u20a6", "n", "g", ",", " "})
    IN  IF parseFloat(cleaned).ok THEN RoundScaled(parseFloat(cleaned), 1) ELSE Null

\* parsePrice: Null stands for null.
parsePrice(input) ==
    LET cleaned == SelectSeq(input,
                       LAMBDA c : ToLower(c) \notin {"\\u20a6", "n", "g", ",", " "})
        body == SubSeq(cleaned, 1, Len(cleaned) - 1)
    IN  IF endsWith(toLowerCase(cleaned), "m") /\ parseFloat(body).ok
        THEN RoundScaled(parseFloat(body), 1000000)
        ELSE IF endsWith(toLowerCase(cleaned), "k") /\ parseFloat(body).ok
        THEN RoundScaled(parseFloat(body), 1000)
        ELSE IF parseFloat(cleaned).ok
        THEN RoundScaled(parseFloat(cleaned), 1)
        ELSE Null

\* Variant of deleteExcessImages that keeps the newest images instead of the
\* earliest (slice(-maxToKeep)).
deleteExcessImages_KeepNewest(images, maxToKeep) ==
    IF Len(images) <= maxToKeep
    THEN [kept |-> images, deleted |-> <<>>]
    ELSE [kept |-> SubSeq(images, Len(images) - maxToKeep + 1, Len(images)),
          deleted |-> SubSeq(images, 1, Len(images) - maxToKeep)]

\* deleteExcessImages: the kept prefix and the ids handed to deleteImages.
deleteExcessImages(images, maxToKeep) ==
    IF Len(images) <= maxToKeep
    THEN [kept |-> images, deleted |-> <<>>]
    ELSE [kept |-> SubSeq(images, 1, maxToKeep),
          deleted |-> SubSeq(images, maxToKeep + 1, Len(images))]

\* processSession's imagesToProcess (step 2).
imagesToProcess(session) ==
    IF Len(session.images) > MAX_IMAGES
    THEN deleteExcessImages(session.images, MAX_IMAGES).kept
    ELSE session.images

\* Responses the model returns to generateContent, as parsed JSON.
GeminiResponses ==
    { [make |-> "Toyota", price |-> 5000000, hero_image_index |-> 1, valid_listing |-> TRUE],
      [make |-> "", price |-> Null, hero_image_index |-> 99, valid_listing |-> FALSE] }

\* validateExtraction: defaults filled, hero index clamped to the image count.
validateExtraction(partial, imageCount) ==
    [present |-> TRUE,
     make |-> IF partial.make = "" THEN "Unknown" ELSE partial.make,
     price |-> partial.price,
     hero_image_index |->
        IF partial.hero_image_index < 0 \/ partial.hero_image_index >= imageCount
        THEN 0 ELSE partial.hero_image_index,
     valid_listing |-> partial.valid_listing]

\* extractVehicleData's catch block: the failed extraction it returns.
FailedExtraction ==
    [present |-> TRUE, make |-> "Unknown", price |-> Null, hero_image_index |-> 0,
     valid_listing |-> FALSE]

\* Sequence 1..n of media ids.
Iota(n) == [i \in 1..n |-> i]

\* ------------------------------------------------------------ shared steps
\* return from a handler: the invocation ends and its slot is free again.
Done(p) ==
    /\ pc' = [pc EXCEPT ![p] = "idle"]
    /\ loc' = [loc EXCEPT ![p] = IdleLoc]

Goto(p, label) == pc' = [pc EXCEPT ![p] = label]

\* A webhook handler has returned to processMessage, its locals still in scope.
Return(p) ==
    /\ pc' = [pc EXCEPT ![p] = "H_return"]
    /\ loc' = loc

\* sendWhatsAppMessage: the message is posted, or the post fails and the
\* error is re-thrown to the caller.
sendWhatsAppMessage(p, kind, count, ok) ==
    outbox' = Append(outbox, [to |-> loc[p].phone, kind |-> kind, n |-> count, ok |-> ok])

\* Variant of clearSession that removes the marker and keeps the session.
clearSession_MarkerOnly(phone) ==
    /\ store' = store
    /\ timer' = [timer EXCEPT ![phone] = "none"]
    /\ now' = now

\* Variant of clearSession that keeps the record and marks it cancelled.
clearSession_MarkCancelled(phone) ==
    /\ store' = [store EXCEPT ![phone].status = "cancelled"]
    /\ timer' = [timer EXCEPT ![phone] = "none"]
    /\ now' = now

\* saveSession: the record is stamped with Date.now() and written; every
\* save reads a later time than the one before it.
Stamped(session) == [session EXCEPT !.last_updated = now + 1]

saveSession(phone, session) ==
    /\ store' = [store EXCEPT ![phone] = Stamped(session)]
    /\ now' = now + 1

\* clearSession: one kv.del of the session key and the timer key.
clearSession(phone) ==
    /\ store' = [store EXCEPT ![phone] = NoSession]
    /\ timer' = [timer EXCEPT ![phone] = "none"]
    /\ now' = now

\* Assets uploaded with the tag session_<phone> (imageService.ts line 57)
\* that the sender's stored session or an image event in progress refers to.
TaggedMedia(phone) ==
    {store[phone].images[i] : i \in 1..Len(store[phone].images)}
    \cup {loc[w].image : w \in {v \in Webhooks : /\ loc[v].phone = phone
                                                 /\ pc[v] \in {"AI_get", "AI_create", "AI_save"}}}

\* deleteSessionImages: delete-by-tag request; it covers every asset that
\* carries the sender's tag.
deleteSessionImages(phone) ==
    /\ tagDeletes' = [tagDeletes EXCEPT ![phone] = @ + 1]
    /\ deletedByTag' = deletedByTag \cup TaggedMedia(phone)

\* Variant of the cleanup calls that re-throws a failed deletion.
AfterCleanup_Rethrow(ok, next, thrown) == IF ok THEN next ELSE thrown

\* Where control goes after deleteImages / deleteSessionImages: their catch
\* blocks log a failed deletion and return normally.
AfterCleanup(ok, next, thrown) == next

\* The calls an invocation has made so far.
Called(l, op, arg, ok) == [l EXCEPT !.trace = Append(@, [op |-> op, arg |-> arg, ok |-> ok])]

\* Variant of setDebounceTimer that leaves an armed marker as it is.
setDebounceTimer_KeepIfArmed(phone) ==
    timer' = [timer EXCEPT ![phone] = IF @ = "none" THEN "full" ELSE @]

\* setDebounceTimer
setDebounceTimer(phone) ==
    timer' = [timer EXCEPT ![phone] = "full"]

\* An invocation takes the lowest free slot of its kind.
FreeSlot(p, slots) ==
    /\ pc[p] = "idle"
    /\ \A q \in slots : q < p => pc[q] # "idle"

\* The marker key exists (kv.exists(timerKey) is not 0).
Armed(s) == timer[s] # "none"

\* Time passes: part of the marker's window has gone by.
TimerElapse(s) ==
    /\ timer[s] = "full"
    /\ timer' = [timer EXCEPT ![s] = "running"]
    /\ UNCHANGED <<store, pc, loc, nextImage, extractCalls, outbox, tagDeletes, deletedByTag,
                   idDeletes, listings, budget, now>>

\* The debounce marker's TTL runs out.
TimerExpire(s) ==
    /\ Armed(s)
    /\ timer' = [timer EXCEPT ![s] = "none"]
    /\ UNCHANGED <<store, pc, loc, nextImage, extractCalls, outbox, tagDeletes, deletedByTag,
                   idDeletes, listings, budget, now>>

\* Variant of the confirming test that only looks for a session.
IsConfirming_AnySession(session) == Exists(session)

\* A session awaiting confirmation: status 'confirming' with extracted data
\* (processorService.ts lines 92 and 165, webhookController.ts line 117).
IsConfirming(session) ==
    Exists(session) /\ session.status = "confirming" /\ session.extracted_data.present

\* ------------------------------------------------------------ webhook: dispatch
EventKinds == {"text", "image", "confirm_post", "edit_price", "cancel_listing"}

EntryPoint(kind) ==
    CASE kind = "text" -> "HT_get"
      [] kind = "image" -> "HI_upload"
      [] kind = "confirm_post" -> "HC_get"
      [] kind = "edit_price" -> "HE_send"
      [] kind = "cancel_listing" -> "HX_delete"

\* processMessage: one inbound message of a sender reaches its handler.
processMessage(p) ==
    /\ FreeSlot(p, Webhooks)
    /\ budget > 0
    /\ \E s \in Inbound, kind \in EventKinds, body \in TextInputs :
        /\ kind # "text" => body = CHOOSE b \in TextInputs : TRUE
        /\ pc' = [pc EXCEPT ![p] = EntryPoint(kind)]
        /\ loc' = [loc EXCEPT ![p] = [IdleLoc EXCEPT !.phone = s,
                        !.text = IF kind = "text" THEN body ELSE <<>>,
                        !.arrived = store[s].status,
                        !.before = [session |-> store[s], timer |-> timer[s],
                                    out |-> Len(outbox), tags |-> tagDeletes[s],
                                    lst |-> Len(listings), kind |-> kind]]]
    /\ budget' = budget - 1
    /\ UNCHANGED <<store, timer, nextImage, extractCalls, outbox, tagDeletes, deletedByTag,
                   idDeletes, listings, now>>

\* processMessage returns (line 108).
H_return(p) ==
    /\ pc[p] = "H_return"
    /\ Done(p)
    /\ UNCHANGED <<store, timer, nextImage, extractCalls, outbox, tagDeletes, deletedByTag,
                   idDeletes, listings, now, budget>>

\* ------------------------------------------------------------ webhook: text
\* handleTextMessage, lines 115-138: read the session and choose the branch.
HT_get(p) ==
    /\ pc[p] = "HT_get"
    /\ LET session == store[loc[p].phone]
           text == loc[p].text
       IN  /\ loc' = [loc EXCEPT ![p].session = session]
           /\ pc' = [pc EXCEPT ![p] =
                  IF IsConfirming(session) /\ LooksLikePrice(text)
                  THEN "HPU_get"
                  ELSE IF IsHelpCommand(text) THEN "HT_welcome"
                  ELSE IF session.status = "collecting" \/ ~Exists(session)
                  THEN "AT_get"
                  ELSE "HT_drop"]
    /\ UNCHANGED <<store, timer, nextImage, extractCalls, outbox, tagDeletes, deletedByTag,
                   idDeletes, listings, budget, now>>

\* handleTextMessage falls off its end: the text is ignored.
HT_drop(p) ==
    /\ pc[p] = "HT_drop"
    /\ Return(p)
    /\ UNCHANGED <<store, timer, nextImage, extractCalls, outbox, tagDeletes, deletedByTag,
                   idDeletes, listings, budget, now>>

\* sendWelcomeMessage
HT_welcome(p) ==
    /\ pc[p] = "HT_welcome"
    /\ \E ok \in BOOLEAN : sendWhatsAppMessage(p, "welcome", 0, ok)
    /\ Return(p)
    /\ UNCHANGED <<store, timer, nextImage, extractCalls, tagDeletes, deletedByTag,
                   idDeletes, listings, budget, now>>

\* addTextToBuffer / addImageToBuffer, getSession and the status test.
BufferGet(p, here, create, save) ==
    /\ pc[p] = here
    /\ LET session == store[loc[p].phone]
       IN  /\ loc' = [loc EXCEPT ![p].buf = session]
           /\ pc' = [pc EXCEPT ![p] =
                  IF ~Exists(session) \/ session.status # "collecting"
                  THEN create ELSE save]
    /\ UNCHANGED <<store, timer, nextImage, extractCalls, outbox, tagDeletes, deletedByTag,
                   idDeletes, listings, budget, now>>

\* createSession: a fresh collecting record is saved over the key.
createSession(p, here, save) ==
    /\ pc[p] = here
    /\ saveSession(loc[p].phone, NewSession)
    /\ loc' = [loc EXCEPT ![p].buf = Stamped(NewSession)]
    /\ Goto(p, save)
    /\ UNCHANGED <<timer, nextImage, extractCalls, outbox, tagDeletes, deletedByTag,
                   idDeletes, listings, budget>>

\* saveSession of the helper's session after the push.
BufferSave(p, here, pushed, next) ==
    /\ pc[p] = here
    /\ saveSession(loc[p].phone, pushed)
    /\ loc' = [loc EXCEPT ![p].buf = Stamped(pushed)]
    /\ Goto(p, next)
    /\ UNCHANGED <<timer, nextImage, extractCalls, outbox, tagDeletes, deletedByTag,
                   idDeletes, listings, budget>>

\* setDebounceTimer as the handler's last call.
ArmTimer(p, here) ==
    /\ pc[p] = here
    /\ setDebounceTimer(loc[p].phone)
    /\ Return(p)
    /\ UNCHANGED <<store, nextImage, extractCalls, outbox, tagDeletes, deletedByTag,
                   idDeletes, listings, budget, now>>

AT_get(p) == BufferGet(p, "AT_get", "AT_create", "AT_save")

AT_create(p) == createSession(p, "AT_create", "AT_save")

AT_save(p) ==
    BufferSave(p, "AT_save",
               [loc[p].buf EXCEPT !.text_buffer = Append(@, loc[p].text)], "HT_timer")

HT_timer(p) == ArmTimer(p, "HT_timer")

\* ------------------------------------------------------------ webhook: image
\* uploadFromWhatsAppToCloudinary: a new asset id, or a failure that the
\* handler's catch logs.
HI_upload(p) ==
    /\ pc[p] = "HI_upload"
    /\ \E ok \in BOOLEAN :
        IF ok
        THEN /\ loc' = [loc EXCEPT ![p].image = nextImage]
             /\ nextImage' = nextImage + 1
             /\ Goto(p, "AI_get")
        ELSE /\ Return(p)
             /\ UNCHANGED nextImage
    /\ UNCHANGED <<store, timer, extractCalls, outbox, tagDeletes, deletedByTag,
                   idDeletes, listings, budget, now>>

AI_get(p) == BufferGet(p, "AI_get", "AI_create", "AI_save")

AI_create(p) == createSession(p, "AI_create", "AI_save")

AI_save(p) ==
    BufferSave(p, "AI_save",
               [loc[p].buf EXCEPT !.images = Append(@, loc[p].image)], "HI_timer")

HI_timer(p) == ArmTimer(p, "HI_timer")

\* ------------------------------------------------------------ api/webhook.ts
\* handler (api/webhook.ts lines 136-182): one inbound text or image message
\* reaches the serverless webhook.
handler(p) ==
    /\ FreeSlot(p, Webhooks)
    /\ budget > 0
    /\ \E s \in Inbound, kind \in {"vercel_text", "vercel_image"}, body \in TextInputs :
        /\ kind # "vercel_text" => body = CHOOSE b \in TextInputs : TRUE
        /\ pc' = [pc EXCEPT ![p] = IF kind = "vercel_text" THEN "VT_get" ELSE "VI_get"]
        /\ loc' = [loc EXCEPT ![p] = [IdleLoc EXCEPT !.phone = s,
                        !.text = IF kind = "vercel_text" THEN body ELSE <<>>,
                        !.image = IF kind = "vercel_image" THEN nextImage ELSE 0,
                        !.arrived = store[s].status,
                        !.before = [session |-> store[s], timer |-> timer[s],
                                    out |-> Len(outbox), tags |-> tagDeletes[s],
                                    lst |-> Len(listings), kind |-> kind]]]
        /\ nextImage' = IF kind = "vercel_image" THEN nextImage + 1 ELSE nextImage
    /\ budget' = budget - 1
    /\ UNCHANGED <<store, timer, extractCalls, outbox, tagDeletes, deletedByTag,
                   idDeletes, listings, now>>

\* setDebounceTimer followed by the acknowledgement (lines 153-156, 174-181).
VercelTimer(p, here) ==
    /\ pc[p] = here
    /\ setDebounceTimer(loc[p].phone)
    /\ Goto(p, "V_ack")
    /\ UNCHANGED <<store, loc, nextImage, extractCalls, outbox, tagDeletes, deletedByTag,
                   idDeletes, listings, budget, now>>

\* Text message (lines 143-157).
VT_get(p) == BufferGet(p, "VT_get", "VT_create", "VT_save")

VT_create(p) == createSession(p, "VT_create", "VT_save")

VT_save(p) ==
    BufferSave(p, "VT_save",
               [loc[p].buf EXCEPT !.text_buffer = Append(@, loc[p].text)], "VT_timer")

VT_timer(p) == VercelTimer(p, "VT_timer")

\* Image message (lines 160-182).
VI_get(p) == BufferGet(p, "VI_get", "VI_create", "VI_save")

VI_create(p) == createSession(p, "VI_create", "VI_save")

VI_save(p) ==
    BufferSave(p, "VI_save",
               [loc[p].buf EXCEPT !.images = Append(@, loc[p].image)], "VI_timer")

VI_timer(p) == VercelTimer(p, "VI_timer")

\* sendTextMessage of api/webhook.ts (lines 61-88): a failed post is logged.
V_ack(p) ==
    /\ pc[p] = "V_ack"
    /\ \E ok \in BOOLEAN : sendWhatsAppMessage(p, "ack", 0, ok)
    /\ Return(p)
    /\ UNCHANGED <<store, timer, nextImage, extractCalls, tagDeletes, deletedByTag,
                   idDeletes, listings, budget, now>>

\* ------------------------------------------------------------ Redis buffer service
\* getSession of the Redis buffer service (part_003 lines 16-22): a missing
\* value and a value that JSON.parse rejects are both returned as null.
ParsedSession(data) ==
    IF ~Exists(data) \/ data.status = "unreadable" THEN NoSession ELSE data

\* The value stored under a session key is no longer parseable JSON.
StoreFault(s) ==
    /\ Exists(store[s])
    /\ store[s].status # "unreadable"
    /\ store' = [store EXCEPT ![s].status = "unreadable"]
    /\ UNCHANGED <<timer, pc, loc, nextImage, extractCalls, outbox, tagDeletes, deletedByTag,
                   idDeletes, listings, budget, now>>

\* processMessage with the Redis buffer service behind the handlers: a text
\* that is neither a command nor an amount, or an uploaded image.
redisMessage(p) ==
    /\ FreeSlot(p, Webhooks)
    /\ budget > 0
    /\ \E s \in Inbound, kind \in {"redis_text", "redis_image"} :
        /\ pc' = [pc EXCEPT ![p] = IF kind = "redis_text" THEN "RT_get" ELSE "RB_get"]
        /\ loc' = [loc EXCEPT ![p] = [IdleLoc EXCEPT !.phone = s,
                        !.text = IF kind = "redis_text" THEN <<"a", "b", "c">> ELSE <<>>,
                        !.image = IF kind = "redis_image" THEN nextImage ELSE 0,
                        !.arrived = store[s].status,
                        !.before = [session |-> store[s], timer |-> timer[s],
                                    out |-> Len(outbox), tags |-> tagDeletes[s],
                                    lst |-> Len(listings), kind |-> kind]]]
        /\ nextImage' = IF kind = "redis_image" THEN nextImage + 1 ELSE nextImage
    /\ budget' = budget - 1
    /\ UNCHANGED <<store, timer, extractCalls, outbox, tagDeletes, deletedByTag,
                   idDeletes, listings, now>>

\* handleTextMessage, lines 115 and 135: the text is buffered when the session
\* read is null or collecting.
RT_get(p) ==
    /\ pc[p] = "RT_get"
    /\ LET session == ParsedSession(store[loc[p].phone])
       IN  /\ loc' = [loc EXCEPT ![p].session = session]
           /\ pc' = [pc EXCEPT ![p] =
                  IF session.status = "collecting" \/ ~Exists(session)
                  THEN "RB_get" ELSE "H_return"]
    /\ UNCHANGED <<store, timer, nextImage, extractCalls, outbox, tagDeletes, deletedByTag,
                   idDeletes, listings, budget, now>>

\* addTextToBuffer / addImageToBuffer of the Redis buffer service, getSession
\* and the status test: redis.get rejects and the error goes to the caller,
\* or its value is parsed.
RB_get(p) ==
    /\ pc[p] = "RB_get"
    /\ \E ok \in BOOLEAN :
        LET session == ParsedSession(store[loc[p].phone])
        IN  IF ok
            THEN /\ loc' = [loc EXCEPT ![p].buf = session]
                 /\ pc' = [pc EXCEPT ![p] =
                        IF ~Exists(session) \/ session.status # "collecting"
                        THEN "RB_create" ELSE "RB_save"]
            ELSE Return(p)
    /\ UNCHANGED <<store, timer, nextImage, extractCalls, outbox, tagDeletes, deletedByTag,
                   idDeletes, listings, budget, now>>

RB_create(p) == createSession(p, "RB_create", "RB_save")

RB_save(p) ==
    BufferSave(p, "RB_save",
               IF loc[p].before.kind = "redis_text"
               THEN [loc[p].buf EXCEPT !.text_buffer = Append(@, loc[p].text)]
               ELSE [loc[p].buf EXCEPT !.images = Append(@, loc[p].image)],
               "RB_timer")

RB_timer(p) == ArmTimer(p, "RB_timer")

\* ------------------------------------------------------------ setExtractedData
\* setExtractedData, getSession (line 116); without a session nothing is saved.
DataGet(p, here, save, next) ==
    /\ pc[p] = here
    /\ LET session == store[loc[p].phone]
       IN  /\ loc' = [loc EXCEPT ![p].buf = session]
           /\ Goto(p, IF Exists(session) THEN save ELSE next)
    /\ UNCHANGED <<store, timer, nextImage, extractCalls, outbox, tagDeletes, deletedByTag,
                   idDeletes, listings, budget, now>>

\* Variant of setExtractedData that sets the status but drops the data.
WithExtractedData_StatusOnly(session, data) ==
    [session EXCEPT !.status = "confirming"]

\* Variant of setExtractedData that stores the data but leaves the status.
WithExtractedData_DataOnly(session, data) ==
    [session EXCEPT !.extracted_data = data]

\* The record setExtractedData saves (lines 118-119).
WithExtractedData(session, data) ==
    [session EXCEPT !.extracted_data = data, !.status = "confirming"]

\* setExtractedData, saveSession (line 120).
DataSave(p, here, data, next) ==
    /\ pc[p] = here
    /\ saveSession(loc[p].phone, WithExtractedData(loc[p].buf, data))
    /\ Goto(p, next)
    /\ UNCHANGED <<timer, loc, nextImage, extractCalls, outbox, tagDeletes, deletedByTag,
                   idDeletes, listings, budget>>

\* ------------------------------------------------------------ webhook: price edit
\* handlePriceUpdate, lines 163-177: guard and parse.
HPU_get(p) ==
    /\ pc[p] = "HPU_get"
    /\ LET session == store[loc[p].phone]
           newPrice == parsePrice(loc[p].text)
       IN  IF ~IsConfirming(session)
           THEN Return(p)
           ELSE IF newPrice = Null
           THEN /\ loc' = [loc EXCEPT ![p].session = session]
                /\ Goto(p, "HPU_reprompt")
           ELSE /\ loc' = [loc EXCEPT ![p].session =
                               [session EXCEPT !.extracted_data.price = newPrice]]
                /\ Goto(p, "HPU_data_get")
    /\ UNCHANGED <<store, timer, nextImage, extractCalls, outbox, tagDeletes, deletedByTag,
                   idDeletes, listings, budget, now>>

HPU_reprompt(p) ==
    /\ pc[p] = "HPU_reprompt"
    /\ \E ok \in BOOLEAN : sendWhatsAppMessage(p, "price_reprompt", 0, ok)
    /\ Return(p)
    /\ UNCHANGED <<store, timer, nextImage, extractCalls, tagDeletes, deletedByTag,
                   idDeletes, listings, budget, now>>

HPU_data_get(p) == DataGet(p, "HPU_data_get", "HPU_data_save", "HPU_send")

HPU_data_save(p) ==
    DataSave(p, "HPU_data_save", loc[p].session.extracted_data, "HPU_send")

HPU_send(p) ==
    /\ pc[p] = "HPU_send"
    /\ \E ok \in BOOLEAN :
        sendWhatsAppMessage(p, "confirmation", Len(loc[p].session.images), ok)
    /\ Return(p)
    /\ UNCHANGED <<store, timer, nextImage, extractCalls, tagDeletes, deletedByTag,
                   idDeletes, listings, budget, now>>

\* handleEditPrice
HE_send(p) ==
    /\ pc[p] = "HE_send"
    /\ \E ok \in BOOLEAN : sendWhatsAppMessage(p, "price_prompt", 0, ok)
    /\ Return(p)
    /\ UNCHANGED <<store, timer, nextImage, extractCalls, tagDeletes, deletedByTag,
                   idDeletes, listings, budget, now>>

\* ------------------------------------------------------------ webhook: cancel
\* handleCancellation
HX_delete(p) ==
    /\ pc[p] = "HX_delete"
    /\ deleteSessionImages(loc[p].phone)
    /\ \E ok \in BOOLEAN :
        /\ loc' = [loc EXCEPT ![p] = Called(@, "deleteSessionImages", "", ok)]
        /\ Goto(p, AfterCleanup(ok, "HX_clear", "H_return"))
    /\ UNCHANGED <<store, timer, nextImage, extractCalls, outbox,
                   idDeletes, listings, budget, now>>

HX_clear(p) ==
    /\ pc[p] = "HX_clear"
    /\ clearSession(loc[p].phone)
    /\ Goto(p, "HX_send")
    /\ UNCHANGED <<loc, nextImage, extractCalls, outbox, tagDeletes, deletedByTag,
                   idDeletes, listings, budget>>

HX_send(p) ==
    /\ pc[p] = "HX_send"
    /\ \E ok \in BOOLEAN : sendWhatsAppMessage(p, "cancelled", 0, ok)
    /\ Return(p)
    /\ UNCHANGED <<store, timer, nextImage, extractCalls, tagDeletes, deletedByTag,
                   idDeletes, listings, budget, now>>

\* ------------------------------------------------------------ webhook: confirm
\* handleConfirmation, lines 90-95.
HC_get(p) ==
    /\ pc[p] = "HC_get"
    /\ LET session == store[loc[p].phone]
       IN  IF ~IsConfirming(session)
           THEN Return(p)
           ELSE /\ loc' = [loc EXCEPT ![p].session = session]
                /\ Goto(p, "HC_dealer")
    /\ UNCHANGED <<store, timer, nextImage, extractCalls, outbox, tagDeletes, deletedByTag,
                   idDeletes, listings, budget, now>>

\* findDealerByPhone: a dealer is registered for the number, or none is.
HC_dealer(p) ==
    /\ pc[p] = "HC_dealer"
    /\ \E found \in BOOLEAN : Goto(p, IF found THEN "HC_create" ELSE "HC_nodealer_send")
    /\ UNCHANGED <<store, timer, loc, nextImage, extractCalls, outbox, tagDeletes, deletedByTag,
                   idDeletes, listings, budget, now>>

HC_nodealer_send(p) ==
    /\ pc[p] = "HC_nodealer_send"
    /\ \E ok \in BOOLEAN :
        /\ sendWhatsAppMessage(p, "no_dealer", 0, ok)
        /\ Goto(p, IF ok THEN "HC_nodealer_clear" ELSE "HC_catch")
    /\ UNCHANGED <<store, timer, loc, nextImage, extractCalls, tagDeletes, deletedByTag,
                   idDeletes, listings, budget, now>>

HC_nodealer_clear(p) ==
    /\ pc[p] = "HC_nodealer_clear"
    /\ clearSession(loc[p].phone)
    /\ Return(p)
    /\ UNCHANGED <<nextImage, extractCalls, outbox, tagDeletes, deletedByTag,
                   idDeletes, listings, budget>>

\* createListing: the listing row is persisted, or the insert fails.
HC_create(p) ==
    /\ pc[p] = "HC_create"
    /\ \E ok \in BOOLEAN :
        IF ok
        THEN /\ listings' = Append(listings,
                    [phone |-> loc[p].phone, images |-> loc[p].session.images,
                     price |-> loc[p].session.extracted_data.price,
                     moved |-> FALSE, media |-> <<>>])
             /\ loc' = [loc EXCEPT ![p].image = Len(listings) + 1]
             /\ Goto(p, "HC_move")
        ELSE /\ Goto(p, "HC_catch")
             /\ UNCHANGED <<listings, loc>>
    /\ UNCHANGED <<store, timer, nextImage, extractCalls, outbox, tagDeletes, deletedByTag,
                   idDeletes, budget, now>>

\* moveImagesToPermanent: per-image failures are caught and logged.
HC_move(p) ==
    /\ pc[p] = "HC_move"
    /\ listings' = [listings EXCEPT ![loc[p].image].moved = TRUE]
    /\ Goto(p, "HC_media")
    /\ UNCHANGED <<store, timer, loc, nextImage, extractCalls, outbox, tagDeletes, deletedByTag,
                   idDeletes, budget, now>>

\* createListingMedia: the media rows are persisted, or the insert fails.
HC_media(p) ==
    /\ pc[p] = "HC_media"
    /\ \E ok \in BOOLEAN :
        IF ok
        THEN /\ listings' = [listings EXCEPT ![loc[p].image].media = loc[p].session.images]
             /\ Goto(p, "HC_created_send")
        ELSE /\ Goto(p, "HC_catch")
             /\ UNCHANGED listings
    /\ UNCHANGED <<store, timer, loc, nextImage, extractCalls, outbox, tagDeletes, deletedByTag,
                   idDeletes, budget, now>>

HC_created_send(p) ==
    /\ pc[p] = "HC_created_send"
    /\ \E ok \in BOOLEAN :
        /\ sendWhatsAppMessage(p, "listing_created", 0, ok)
        /\ Goto(p, IF ok THEN "HC_clear" ELSE "HC_catch")
    /\ UNCHANGED <<store, timer, loc, nextImage, extractCalls, tagDeletes, deletedByTag,
                   idDeletes, listings, budget, now>>

HC_clear(p) ==
    /\ pc[p] = "HC_clear"
    /\ clearSession(loc[p].phone)
    /\ Return(p)
    /\ UNCHANGED <<nextImage, extractCalls, outbox, tagDeletes, deletedByTag,
                   idDeletes, listings, budget>>

\* handleConfirmation's catch block (lines 136-139).
HC_catch(p) ==
    /\ pc[p] = "HC_catch"
    /\ \E ok \in BOOLEAN : sendWhatsAppMessage(p, "processing_error", 0, ok)
    /\ Return(p)
    /\ UNCHANGED <<store, timer, nextImage, extractCalls, tagDeletes, deletedByTag,
                   idDeletes, listings, budget, now>>

\* ------------------------------------------------------------ scanner
\* Orders in which kv.keys may list the session keys.
KeyOrders ==
    LET present == {s \in Senders : Exists(store[s])}
    IN  {ks \in [1..Cardinality(present) -> present] :
            \A i, j \in 1..Cardinality(present) : i # j => ks[i] # ks[j]}

\* pollExpiredSessions starts (cron request or interval tick).
pollExpiredSessions(p) ==
    /\ FreeSlot(p, Scanners)
    /\ budget > 0
    /\ budget' = budget - 1
    /\ Goto(p, "PE_keys")
    /\ UNCHANGED <<store, timer, loc, nextImage, extractCalls, outbox, tagDeletes, deletedByTag,
                   idDeletes, listings, now>>

\* pollExpiredSessions' loop over expiredPhones: the next processSession
\* call, or the end of the run.
NextPhone(p, l) ==
    IF l.expired = <<>>
    THEN Done(p)
    ELSE /\ loc' = [loc EXCEPT ![p] = [IdleLoc EXCEPT !.phone = Head(l.expired),
                                                      !.expired = Tail(l.expired)]]
         /\ Goto(p, "PS_get")

\* getExpiredTimerPhoneNumbers' loop over sessionKeys: the next key, or the
\* return of expiredPhones to pollExpiredSessions.
NextKey(p, l) ==
    IF Len(l.keys) > 1
    THEN /\ loc' = [loc EXCEPT ![p] = [l EXCEPT !.keys = Tail(l.keys),
                                                !.phone = l.keys[2]]]
         /\ Goto(p, "PE_exists")
    ELSE NextPhone(p, l)

\* getExpiredTimerPhoneNumbers, kv.keys (line 154).
PE_keys(p) ==
    /\ pc[p] = "PE_keys"
    /\ \E ks \in KeyOrders :
        IF ks = <<>>
        THEN Done(p)
        ELSE /\ loc' = [loc EXCEPT ![p].keys = ks, ![p].phone = ks[1]]
             /\ Goto(p, "PE_exists")
    /\ UNCHANGED <<store, timer, nextImage, extractCalls, outbox, tagDeletes, deletedByTag,
                   idDeletes, listings, budget, now>>

\* getExpiredTimerPhoneNumbers, kv.exists(timerKey) (lines 162-163).
PE_exists(p) ==
    /\ pc[p] = "PE_exists"
    /\ IF Armed(loc[p].phone)
       THEN NextKey(p, loc[p])
       ELSE Goto(p, "PE_session") /\ UNCHANGED loc
    /\ UNCHANGED <<store, timer, nextImage, extractCalls, outbox, tagDeletes, deletedByTag,
                   idDeletes, listings, budget, now>>

\* Variant of the selection that waits for the minimum number of images.
ReadyToProcess_MinImages(session) ==
    Exists(session) /\ session.status = "collecting"
    /\ Len(session.images) >= MIN_IMAGES

\* Variant of the selection that does not look at the image count.
ReadyToProcess_AnyCollecting(session) ==
    Exists(session) /\ session.status = "collecting"

\* Whether the scanner selects a session (line 165).
ReadyToProcess(session) ==
    Exists(session) /\ session.status = "collecting" /\ Len(session.images) > 0

\* getExpiredTimerPhoneNumbers, getSession and the selection (lines 164-167).
PE_session(p) ==
    /\ pc[p] = "PE_session"
    /\ LET phone == loc[p].phone
       IN  NextKey(p, IF ReadyToProcess(store[phone])
                      THEN [loc[p] EXCEPT !.expired = Append(@, phone)]
                      ELSE loc[p])
    /\ UNCHANGED <<store, timer, nextImage, extractCalls, outbox, tagDeletes, deletedByTag,
                   idDeletes, listings, budget, now>>

\* ------------------------------------------------------------ processSession
\* Variant of the guard that only tests that a session exists.
IsCollecting_AnyStatus(session) == Exists(session)

\* The Collecting-state guard (line 20).
IsCollecting(session) == Exists(session) /\ session.status = "collecting"

\* Variant of the count test with the minimum compared by <=.
AfterStatusUpdate_OffByOne(session) ==
    IF Len(session.images) <= MIN_IMAGES THEN "PS_few_delete"
    ELSE IF Len(session.images) > MAX_IMAGES THEN "PS_trim"
    ELSE "PS_extract"

\* Branch taken after the status update, on the image count (lines 30-47).
AfterStatusUpdate(session) ==
    IF Len(session.images) < MIN_IMAGES THEN "PS_few_delete"
    ELSE IF Len(session.images) > MAX_IMAGES THEN "PS_trim"
    ELSE "PS_extract"

\* Variant of the validity test that accepts every extraction.
IsValidListing_Always(extraction) == TRUE

\* The validity test on the extraction (line 58).
IsValidListing(extraction) == extraction.valid_listing

\* processSession, getSession and the guard (lines 18-23).
PS_get(p) ==
    /\ pc[p] = "PS_get"
    /\ LET session == store[loc[p].phone]
       IN  IF IsCollecting(session)
           THEN /\ loc' = [loc EXCEPT ![p].session = session]
                /\ Goto(p, "PS_status_get")
           ELSE /\ Goto(p, "PS_return")
                /\ UNCHANGED loc
    /\ UNCHANGED <<store, timer, nextImage, extractCalls, outbox, tagDeletes, deletedByTag,
                   idDeletes, listings, budget, now>>

\* processSession returns to pollExpiredSessions' loop (line 271).
PS_return(p) ==
    /\ pc[p] = "PS_return"
    /\ NextPhone(p, loc[p])
    /\ UNCHANGED <<store, timer, nextImage, extractCalls, outbox, tagDeletes, deletedByTag,
                   idDeletes, listings, budget, now>>

\* updateSessionStatus, getSession (line 81).
PS_status_get(p) ==
    /\ pc[p] = "PS_status_get"
    /\ LET session == store[loc[p].phone]
       IN  /\ loc' = [loc EXCEPT ![p].buf = session]
           /\ Goto(p, IF Exists(session) THEN "PS_status_save"
                      ELSE AfterStatusUpdate(loc[p].session))
    /\ UNCHANGED <<store, timer, nextImage, extractCalls, outbox, tagDeletes, deletedByTag,
                   idDeletes, listings, budget, now>>

\* updateSessionStatus, saveSession with status 'processing' (lines 83-84).
PS_status_save(p) ==
    /\ pc[p] = "PS_status_save"
    /\ saveSession(loc[p].phone, [loc[p].buf EXCEPT !.status = "processing"])
    /\ Goto(p, AfterStatusUpdate(loc[p].session))
    /\ UNCHANGED <<timer, loc, nextImage, extractCalls, outbox, tagDeletes, deletedByTag,
                   idDeletes, listings, budget>>

\* deleteSessionImages inside processSession.
DeleteAndGo(p, here, next) ==
    /\ pc[p] = here
    /\ deleteSessionImages(loc[p].phone)
    /\ \E ok \in BOOLEAN :
        /\ loc' = [loc EXCEPT ![p] = Called(@, "deleteSessionImages", "", ok)]
        /\ Goto(p, AfterCleanup(ok, next, "PS_catch_clear"))
    /\ UNCHANGED <<store, timer, nextImage, extractCalls, outbox,
                   idDeletes, listings, budget, now>>

\* clearSession inside processSession.
ClearAndGo(p, here, next) ==
    /\ pc[p] = here
    /\ clearSession(loc[p].phone)
    /\ loc' = [loc EXCEPT ![p] = Called(@, "clearSession", "", TRUE)]
    /\ Goto(p, next)
    /\ UNCHANGED <<nextImage, extractCalls, outbox, tagDeletes, deletedByTag,
                   idDeletes, listings, budget>>

\* A notifier call inside processSession's try block: on success the
\* function returns, on failure control passes to the catch block.
SendAndReturn(p, here, kind, count) ==
    /\ pc[p] = here
    /\ \E ok \in BOOLEAN :
        /\ sendWhatsAppMessage(p, kind, count, ok)
        /\ loc' = [loc EXCEPT ![p] = Called(@, "send", kind, ok)]
        /\ Goto(p, IF ok THEN "PS_return" ELSE "PS_catch_clear")
    /\ UNCHANGED <<store, timer, nextImage, extractCalls, tagDeletes, deletedByTag,
                   idDeletes, listings, budget, now>>

\* Too few images (lines 33-39).
PS_few_delete(p) == DeleteAndGo(p, "PS_few_delete", "PS_few_clear")

PS_few_clear(p) == ClearAndGo(p, "PS_few_clear", "PS_few_send")

PS_few_send(p) == SendAndReturn(p, "PS_few_send", "insufficient_images", 0)

\* deleteExcessImages: the excess ids go to deleteImages (lines 44-46).
PS_trim(p) ==
    /\ pc[p] = "PS_trim"
    /\ idDeletes' = idDeletes \cup
            {deleteExcessImages(loc[p].session.images, MAX_IMAGES).deleted}
    /\ \E ok \in BOOLEAN :
        /\ loc' = [loc EXCEPT ![p] = Called(@, "deleteImages", "", ok)]
        /\ Goto(p, AfterCleanup(ok, "PS_extract", "PS_catch_clear"))
    /\ UNCHANGED <<store, timer, nextImage, extractCalls, outbox, tagDeletes, deletedByTag,
                   listings, budget, now>>

\* extractVehicleData: the validated response, or the failed extraction
\* its catch block returns (lines 50-53).
PS_extract(p) ==
    /\ pc[p] = "PS_extract"
    /\ LET images == imagesToProcess(loc[p].session)
       IN  /\ extractCalls' = Append(extractCalls,
                  [phone |-> loc[p].phone, text |-> loc[p].session.text_buffer,
                   images |-> images])
           /\ \E threw \in BOOLEAN, r \in GeminiResponses :
               LET extraction == IF threw THEN FailedExtraction
                                 ELSE validateExtraction(r, Len(images))
               IN  /\ threw => r = CHOOSE x \in GeminiResponses : TRUE
                   /\ loc' = [loc EXCEPT ![p] =
                          [Called(@, "extractVehicleData",
                                  IF threw THEN "failed"
                                  ELSE IF r.valid_listing THEN "valid" ELSE "invalid",
                                  ~threw)
                           EXCEPT !.extraction = extraction]]
                   /\ Goto(p, IF ~IsValidListing(extraction) THEN "PS_bad_delete"
                              ELSE "PS_data_get")
    /\ UNCHANGED <<store, timer, nextImage, outbox, tagDeletes, deletedByTag,
                   idDeletes, listings, budget, now>>

\* Not a valid listing (lines 58-63).
PS_bad_delete(p) == DeleteAndGo(p, "PS_bad_delete", "PS_bad_clear")

PS_bad_clear(p) == ClearAndGo(p, "PS_bad_clear", "PS_bad_send")

PS_bad_send(p) == SendAndReturn(p, "PS_bad_send", "not_a_car", 0)

\* Valid listing: store the extraction and prompt (lines 66-77).
PS_data_get(p) == DataGet(p, "PS_data_get", "PS_data_save", "PS_confirm_send")

PS_data_save(p) == DataSave(p, "PS_data_save", loc[p].extraction, "PS_confirm_send")

PS_confirm_send(p) ==
    SendAndReturn(p, "PS_confirm_send", "confirmation",
                  Len(imagesToProcess(loc[p].session)))

\* processSession's catch block (lines 79-83).
PS_catch_clear(p) == ClearAndGo(p, "PS_catch_clear", "PS_catch_send")

\* sendProcessingError in the catch block: its own failure leaves
\* processSession and ends the scanner run.
PS_catch_send(p) ==
    /\ pc[p] = "PS_catch_send"
    /\ \E ok \in BOOLEAN :
        /\ sendWhatsAppMessage(p, "processing_error", 0, ok)
        /\ loc' = [loc EXCEPT ![p] = Called(@, "send", "processing_error", ok)]
        /\ Goto(p, IF ok THEN "PS_return" ELSE "PS_throw")
    /\ UNCHANGED <<store, timer, nextImage, extractCalls, tagDeletes, deletedByTag,
                   idDeletes, listings, budget, now>>

\* The error thrown in the catch block leaves processSession and, through
\* the loop of pollExpiredSessions (line 271), the scanner run.
PS_throw(p) ==
    /\ pc[p] = "PS_throw"
    /\ Done(p)
    /\ UNCHANGED <<store, timer, nextImage, extractCalls, outbox, tagDeletes, deletedByTag,
                   idDeletes, listings, now, budget>>

\* ------------------------------------------------------------ specifications
\* A stored collecting session of n images (n = 0: no session).
SessionOf(n) == IF n = 0 THEN NoSession ELSE [NewSession EXCEPT !.images = Iota(n)]

\* Everything but the store: no invocation in progress, nothing called yet.
InitRest(invocations) ==
    /\ pc = [p \in Procs |-> "idle"]
    /\ loc = [p \in Procs |-> IdleLoc]
    /\ extractCalls = <<>>
    /\ outbox = <<>>
    /\ tagDeletes = [s \in Senders |-> 0]
    /\ deletedByTag = {}
    /\ idDeletes = {}
    /\ listings = <<>>
    /\ now = 0
    /\ budget = invocations

\* The store after a sender's first n images have been handled one after
\* the other (the marker armed by the last of them), and an invocation budget.
InitWith(counts, invocations) ==
    /\ \E n \in counts :
        /\ store = [s \in Senders |-> IF s \in Inbound THEN SessionOf(n) ELSE NoSession]
        /\ timer = [s \in Senders |-> IF s \in Inbound /\ n > 0 THEN "full" ELSE "none"]
        /\ nextImage = n + 1
    /\ InitRest(invocations)

\* Image counts of the initial session under the concurrent specification:
\* none, the minimum, above the maximum.
InitImageCounts == {0, MIN_IMAGES, MAX_IMAGES + 1}

Init == InitWith(InitImageCounts, MaxInvocations)

WebhookStep(p) ==
    \/ processMessage(p) \/ H_return(p)
    \/ HT_get(p) \/ HT_drop(p) \/ HT_welcome(p)
    \/ AT_get(p) \/ AT_create(p) \/ AT_save(p) \/ HT_timer(p)
    \/ HI_upload(p) \/ AI_get(p) \/ AI_create(p) \/ AI_save(p) \/ HI_timer(p)
    \/ HPU_get(p) \/ HPU_reprompt(p) \/ HPU_data_get(p) \/ HPU_data_save(p)
    \/ HPU_send(p) \/ HE_send(p)
    \/ HX_delete(p) \/ HX_clear(p) \/ HX_send(p)
    \/ HC_get(p) \/ HC_dealer(p) \/ HC_nodealer_send(p) \/ HC_nodealer_clear(p)
    \/ HC_create(p) \/ HC_move(p) \/ HC_media(p) \/ HC_created_send(p)
    \/ HC_clear(p) \/ HC_catch(p)

ScannerStep(p) ==
    \/ pollExpiredSessions(p)
    \/ PE_keys(p) \/ PE_exists(p) \/ PE_session(p)
    \/ PS_get(p) \/ PS_return(p) \/ PS_status_get(p) \/ PS_status_save(p)
    \/ PS_few_delete(p) \/ PS_few_clear(p) \/ PS_few_send(p)
    \/ PS_trim(p) \/ PS_extract(p)
    \/ PS_bad_delete(p) \/ PS_bad_clear(p) \/ PS_bad_send(p)
    \/ PS_data_get(p) \/ PS_data_save(p) \/ PS_confirm_send(p)
    \/ PS_catch_clear(p) \/ PS_catch_send(p) \/ PS_throw(p)

\* No other webhook invocation is in progress.
OneWebhook(p) == \A q \in Webhooks \ {p} : pc[q] = "idle"

\* One webhook invocation at a time and the scanner runs interleave step by
\* step.
Next ==
    \/ \E p \in Webhooks : OneWebhook(p) /\ WebhookStep(p)
    \/ \E p \in Scanners : ScannerStep(p)
    \/ \E s \in Senders : TimerElapse(s) \/ TimerExpire(s)

Spec == Init /\ [][Next]_vars

\* No other invocation is in progress.
Solo(p) == \A q \in Procs \ {p} : pc[q] = "idle"

\* Image counts of the session a burst of events meets: none, one image.
BurstImageCounts == {0, 1}

\* The session processSession leaves after a valid extraction from
\* MIN_IMAGES images.
ConfirmingSession ==
    [NewSession EXCEPT
        !.images = Iota(MIN_IMAGES),
        !.status = "confirming",
        !.extracted_data =
            validateExtraction(CHOOSE r \in GeminiResponses : r.valid_listing,
                               MIN_IMAGES)]

\* A burst of events meets a collecting session, no session, or a session
\* that awaits confirmation.
InitBurst ==
    \/ InitWith(BurstImageCounts, MaxInvocations)
    \/ /\ store = [s \in Senders |-> IF s \in Inbound THEN ConfirmingSession
                                      ELSE NoSession]
       /\ timer = [s \in Senders |-> "none"]
       /\ nextImage = MIN_IMAGES + 1
       /\ InitRest(MaxInvocations)

\* The webhook invocations of requests that arrive close together interleave
\* step by step (handleWebhook answers 200 and goes on after the response).
NextBurst ==
    \/ \E p \in Webhooks : WebhookStep(p)
    \/ \E s \in Senders : TimerElapse(s) \/ TimerExpire(s)

SpecBurst == InitBurst /\ [][NextBurst]_vars

InitSeq == InitWith(0..MaxInitImages, MaxSeqInvocations)

\* Every invocation runs to completion before the next one starts.
NextSeq ==
    \/ \E p \in Webhooks : Solo(p) /\ WebhookStep(p)
    \/ \E p \in Scanners : Solo(p) /\ ScannerStep(p)
    \/ \E s \in Senders : TimerElapse(s) \/ TimerExpire(s)

SpecSeq == InitSeq /\ [][NextSeq]_vars

\* Position inside processSession (between its first read and its return).
InProcessSession(p) ==
    pc[p] \in {"PS_status_get", "PS_status_save", "PS_few_delete", "PS_few_clear",
               "PS_few_send", "PS_trim", "PS_extract", "PS_bad_delete",
               "PS_bad_clear", "PS_bad_send", "PS_data_get", "PS_data_save",
               "PS_confirm_send", "PS_catch_clear", "PS_catch_send"}

InitRerun == InitWith(1..MaxInitImages, MaxInvocations)

\* Scanner runs only: their selections may overlap, so that both select the
\* same sender, but the processSession calls run one after the other.
NextRerun ==
    \/ \E p \in Scanners :
        /\ pc[p] = "PS_get" => \A q \in Scanners \ {p} : ~InProcessSession(q)
        /\ ScannerStep(p)
    \/ \E s \in Senders : TimerElapse(s) \/ TimerExpire(s)

SpecRerun == InitRerun /\ [][NextRerun]_vars

\* Image counts of the sessions a scanner run finds: below the minimum, the
\* minimum, above the maximum.
PollImageCounts == {1, MIN_IMAGES, MAX_IMAGES + 1}

\* Media ids of a sender's n images, the senders' ids being disjoint.
ImagesOf(s, n) == [i \in 1..n |-> IF s \in Inbound THEN i ELSE MaxInitImages + i]

\* Every sender has a collecting session whose marker was armed by its last
\* image.
InitPoll ==
    /\ \E n \in [Senders -> PollImageCounts] :
        store = [s \in Senders |-> [NewSession EXCEPT !.images = ImagesOf(s, n[s])]]
    /\ timer = [s \in Senders |-> "full"]
    /\ nextImage = 2 * MaxInitImages + 1
    /\ InitRest(MaxInvocations)

\* Scanner runs, one after the other, over the sessions of several senders.
NextPoll ==
    \/ \E p \in Scanners : Solo(p) /\ ScannerStep(p)
    \/ \E s \in Senders : TimerElapse(s) \/ TimerExpire(s)

SpecPoll == InitPoll /\ [][NextPoll]_vars

RedisStep(p) ==
    \/ redisMessage(p) \/ H_return(p)
    \/ RT_get(p) \/ RB_get(p) \/ RB_create(p) \/ RB_save(p) \/ RB_timer(p)

\* Inbound events over the Redis buffer service, one after the other, with
\* stored values that may become unreadable.
NextRedis ==
    \/ \E p \in Webhooks : Solo(p) /\ RedisStep(p)
    \/ \E s \in Senders : StoreFault(s)
    \/ \E s \in Senders : TimerElapse(s) \/ TimerExpire(s)

SpecRedis == InitSeq /\ [][NextRedis]_vars

\* The interval timer (index.ts) or the cron route starts a scanner run; it
\* does so again and again, whatever has happened before.
IntervalTick(p) ==
    /\ FreeSlot(p, Scanners)
    /\ Goto(p, "PE_keys")
    /\ UNCHANGED <<store, timer, loc, nextImage, extractCalls, outbox, tagDeletes, deletedByTag,
                   idDeletes, listings, now, budget>>

\* Webhook invocations and scanner runs, one after the other; the sender
\* sends a bounded number of events and the scanner keeps being started.
NextLive ==
    \/ \E p \in Webhooks : Solo(p) /\ WebhookStep(p)
    \/ \E p \in Scanners : Solo(p) /\ ScannerStep(p)
    \/ \E p \in Scanners : Solo(p) /\ IntervalTick(p)
    \/ \E s \in Senders : TimerElapse(s) \/ TimerExpire(s)

\* Every started handler runs on, time passes, and the scanner is started
\* again after each of its runs.
Fairness ==
    /\ \A p \in Webhooks : WF_vars(pc[p] # "idle" /\ WebhookStep(p))
    /\ \A p \in Scanners : WF_vars(pc[p] # "idle" /\ ScannerStep(p))
    /\ \A p \in Scanners : WF_vars(Solo(p) /\ IntervalTick(p))
    /\ \A s \in Senders : WF_vars(TimerExpire(s))

\* Image counts of the initial session: none, one image, the minimum, above
\* the maximum.
LiveImageCounts == {0, 1, MIN_IMAGES, MAX_IMAGES + 1}

InitLive == InitWith(LiveImageCounts, MaxLiveEvents)

SpecLive == InitLive /\ [][NextLive]_vars /\ Fairness

\* Characters of the inputs given to parsePrice.
PriceAlphabet == {"5", "2", ".", "m", "M", "k", ",", " ", "a", "\\u20a6"}

\* Inputs of parsePrice: every text of up to MaxPriceLen characters, and the
\* longer texts of the documented examples.
PriceInputs ==
    UNION {[1..n -> PriceAlphabet] : n \in 0..MaxPriceLen}
    \cup { <<"5", "0", "0", "0", "0", "0", "0">>,
           <<"2", ".", "5", "m">>,
           <<"\\u20a6", " ", "1", ",", "2", "0", "0", ",", "0", "0", "0">>,
           <<"a", "b", "c">>,
           <<"1", ".", "2", "3", "4", "6", "k">> }

\* A text is about to be given to parsePrice.
InitPrice ==
    /\ store = [s \in Senders |-> NoSession]
    /\ timer = [s \in Senders |-> "none"]
    /\ nextImage = 1
    /\ pc = [p \in Procs |-> "idle"]
    /\ \E input \in PriceInputs :
        loc = [p \in Procs |-> [IdleLoc EXCEPT !.text = input]]
    /\ extractCalls = <<>>
    /\ outbox = <<>>
    /\ tagDeletes = [s \in Senders |-> 0]
    /\ deletedByTag = {}
    /\ idDeletes = {}
    /\ listings = <<>>
    /\ now = 0
    /\ budget = 0

\* parsePrice is called on the text, and then once more: the first result
\* is kept in image, the second as the price.
parsePriceCall(p) ==
    /\ pc[p] \in {"idle", "PP_again"}
    /\ IF pc[p] = "idle"
       THEN /\ loc' = [loc EXCEPT ![p].image = parsePrice(loc[p].text)]
            /\ Goto(p, "PP_again")
       ELSE /\ loc' = [loc EXCEPT ![p].extraction.price = parsePrice(loc[p].text)]
            /\ Goto(p, "PP_done")
    /\ UNCHANGED <<store, timer, nextImage, extractCalls, outbox, tagDeletes, deletedByTag,
                   idDeletes, listings, now, budget>>

NextPrice == \E p \in Webhooks : OneWebhook(p) /\ parsePriceCall(p)

SpecPrice == InitPrice /\ [][NextPrice]_vars

VercelStep(p) ==
    \/ handler(p) \/ H_return(p)
    \/ VT_get(p) \/ VT_create(p) \/ VT_save(p) \/ VT_timer(p)
    \/ VI_get(p) \/ VI_create(p) \/ VI_save(p) \/ VI_timer(p)
    \/ V_ack(p)

\* The serverless deployment: api/webhook.ts receives the messages and the
\* cron route runs the scanner, one invocation after the other.
NextVercel ==
    \/ \E p \in Webhooks : Solo(p) /\ VercelStep(p)
    \/ \E p \in Scanners : Solo(p) /\ ScannerStep(p)
    \/ \E s \in Senders : TimerElapse(s) \/ TimerExpire(s)

SpecVercel == InitSeq /\ [][NextVercel]_vars

\* ------------------------------------------------------------ properties
\* Names of the calls an invocation of processSession has made.
Ops(l) == [i \in 1..Len(l.trace) |-> l.trace[i].op]

HasCall(l, op) == \E i \in 1..Len(l.trace) : l.trace[i].op = op

CallCount(l, op) == Cardinality({i \in 1..Len(l.trace) : l.trace[i].op = op})

\* Every notifier call so far was delivered.
AllDelivered == \A i \in 1..Len(outbox) : outbox[i].ok

\* processSession has returned and had passed its guard.
Returned(p) == pc[p] = "PS_return" /\ Exists(loc[p].session)

\* processSession has returned from a failed guard.
ReturnedEarly(p) == pc[p] = "PS_return" /\ ~Exists(loc[p].session)

C2_OneOutcome ==
    \A p, q \in Scanners :
        (p # q /\ Returned(p) /\ Returned(q)
         /\ loc[p].session.images = loc[q].session.images)
        => ~(\E i \in 1..Len(loc[p].trace), j \in 1..Len(loc[q].trace) :
                /\ loc[p].trace[i].op = "send" /\ loc[p].trace[i].ok
                /\ loc[q].trace[j].op = "send" /\ loc[q].trace[j].ok)

\* C3: no store write changes a sender's session from 'collecting' directly
\* to 'confirming'.
C3_NoSkipOfExtracting ==
    [][\A s \in Senders :
        store'[s].status = "confirming" => store[s].status # "collecting"]_vars

\* C4 as stated: collecting iff no extracted data, and confirming iff
\* extracted data present and valid.
C4_Original ==
    \A s \in Senders :
        Exists(store[s]) =>
            /\ store[s].status = "collecting" <=> ~store[s].extracted_data.present
            /\ store[s].status = "confirming" <=>
                (store[s].extracted_data.present
                 /\ store[s].extracted_data.valid_listing)

\* C4, amended: a collecting session has no extracted data, and a confirming
\* session has extracted data that is marked valid.
C4_StatusAndData ==
    \A s \in Senders :
        /\ store[s].status = "collecting" => ~store[s].extracted_data.present
        /\ store[s].status = "confirming" =>
            (store[s].extracted_data.present /\ store[s].extracted_data.valid_listing)

C4_Witness ==
    \E s \in Senders :
        /\ store[s].status = "confirming"
        /\ store[s].extracted_data.valid_listing
        /\ \E p \in Scanners : pc[p] = "PS_confirm_send"

\* C5: processSession never moves a session to 'processing' while the
\* sender's debounce marker is armed.
C5_NoStartWhileArmed ==
    [][\A p \in Scanners :
        (pc[p] = "PS_status_save" /\ pc'[p] # "PS_status_save")
        => ~Armed(loc[p].phone)]_vars

\* C6: a text or image event that arrived while the sender's session was
\* 'processing' never writes the session record while it is 'processing'.
C6_DroppedWhileExtracting ==
    [][\A p \in Webhooks :
        (/\ pc[p] \in {"AT_create", "AT_save", "AI_create", "AI_save"}
         /\ pc'[p] # pc[p]
         /\ loc[p].arrived = "processing"
         /\ store[loc[p].phone].status = "processing")
        => store' = store]_vars

\* C7: a session of 6 images and 1 text fragment that the scanner processes
\* leads to exactly one extraction call, carrying those 6 images and that
\* fragment; on a valid result, notifier calls succeeding, the stored
\* session is that session in 'confirming' with the result attached, and
\* exactly one message, the confirmation prompt, has been sent for it.
C7_SixImagesOneText ==
    \A p \in Scanners :
        (Returned(p) /\ Len(loc[p].session.images) = 6
         /\ Len(loc[p].session.text_buffer) = 1)
        => LET session == loc[p].session
               mine == {i \in 1..Len(extractCalls) :
                           extractCalls[i].images = session.images}
           IN  /\ Cardinality(mine) = 1
               /\ CallCount(loc[p], "extractVehicleData") = 1
               /\ \A i \in mine : extractCalls[i].text = session.text_buffer
               /\ (loc[p].extraction.valid_listing /\ AllDelivered) =>
                    /\ store[loc[p].phone] =
                         [session EXCEPT !.status = "confirming",
                                         !.extracted_data = loc[p].extraction,
                                         !.last_updated = now]
                    /\ CallCount(loc[p], "send") = 1
                    /\ loc[p].trace[Len(loc[p].trace)] =
                         [op |-> "send", arg |-> "confirmation", ok |-> TRUE]
                    /\ outbox[Len(outbox)].n = 6

C7_Witness ==
    \E p \in Scanners :
        /\ Returned(p)
        /\ loc[p].session.images = Iota(6)
        /\ Len(loc[p].session.text_buffer) = 1
        /\ loc[p].extraction.valid_listing
        /\ AllDelivered
        /\ budget = 0

\* C8: processSession on a collecting session of fewer than MIN_IMAGES
\* images makes no extraction call, requests deletion of the sender's
\* media, deletes the session and reports the insufficient-input outcome;
\* with exactly MIN_IMAGES images it makes the extraction call.
C8_MinimumImages ==
    /\ \A i \in 1..Len(extractCalls) : Len(extractCalls[i].images) >= MIN_IMAGES
    /\ \A p \in Scanners :
        Returned(p) =>
            /\ Len(loc[p].session.images) < MIN_IMAGES =>
                /\ ~HasCall(loc[p], "extractVehicleData")
                /\ Len(loc[p].trace) >= 3
                /\ SubSeq(Ops(loc[p]), 1, 3) =
                     <<"deleteSessionImages", "clearSession", "send">>
                /\ loc[p].trace[3].arg = "insufficient_images"
                /\ tagDeletes[loc[p].phone] >= 1
                /\ ~Exists(store[loc[p].phone])
            /\ Len(loc[p].session.images) = MIN_IMAGES =>
                /\ CallCount(loc[p], "extractVehicleData") = 1
                /\ \E i \in 1..Len(extractCalls) :
                        extractCalls[i].images = loc[p].session.images

C8_Witness ==
    /\ \E p \in Scanners :
        /\ Returned(p)
        /\ Len(loc[p].session.images) = MIN_IMAGES - 1
        /\ loc[p].trace[3].ok
    /\ extractCalls = <<>>

\* C9: with more than MAX_IMAGES images the extraction call receives the
\* first MAX_IMAGES images in submission order and exactly the remaining
\* ones are handed to deletion; with MIN_IMAGES..MAX_IMAGES images it
\* receives all of them and nothing is discarded.
C9_MaximumImages ==
    \A p \in Scanners :
        (Returned(p) /\ HasCall(loc[p], "extractVehicleData")) =>
            LET images == loc[p].session.images
                n == Len(images)
            IN  /\ \E i \in 1..Len(extractCalls) :
                     extractCalls[i].images = SubSeq(images, 1, IF n > MAX_IMAGES
                                                                THEN MAX_IMAGES ELSE n)
                /\ n > MAX_IMAGES =>
                     /\ CallCount(loc[p], "deleteImages") = 1
                     /\ SubSeq(images, MAX_IMAGES + 1, n) \in idDeletes
                     /\ \A d \in idDeletes :
                          (\E k \in 1..Len(d) : \E m \in 1..n : d[k] = images[m])
                          => d = SubSeq(images, MAX_IMAGES + 1, n)
                /\ n <= MAX_IMAGES =>
                     /\ ~HasCall(loc[p], "deleteImages")
                     /\ \A d \in idDeletes :
                          ~(\E k \in 1..Len(d) : \E m \in 1..n : d[k] = images[m])

C9_Witness ==
    \E p \in Scanners :
        /\ Returned(p)
        /\ loc[p].session.images = Iota(15)
        /\ <<13, 14, 15>> \in idDeletes
        /\ \E i \in 1..Len(extractCalls) : extractCalls[i].images = Iota(12)

\* C10: when the extraction result is marked invalid, or the engine fails,
\* processSession requests deletion of the media, deletes the session and
\* reports the not-recognized outcome; after processSession the session is
\* not in 'processing'.
C10_InvalidExtraction ==
    /\ \A p \in Scanners :
        Returned(p) =>
            /\ store[loc[p].phone].status # "processing"
            /\ \A i \in 1..Len(loc[p].trace) :
                (loc[p].trace[i].op = "extractVehicleData"
                 /\ loc[p].trace[i].arg \in {"invalid", "failed"})
                => /\ Len(loc[p].trace) >= i + 3
                   /\ SubSeq(Ops(loc[p]), i + 1, i + 3) =
                        <<"deleteSessionImages", "clearSession", "send">>
                   /\ loc[p].trace[i + 3].arg = "not_a_car"
                   /\ ~Exists(store[loc[p].phone])
    /\ (\A p \in Procs : pc[p] = "idle") =>
            \A s \in Senders : store[s].status # "processing"

C10_Witness ==
    \E p \in Scanners :
        /\ Returned(p)
        /\ \E i \in 1..Len(loc[p].trace) :
            /\ loc[p].trace[i].op = "extractVehicleData"
            /\ loc[p].trace[i].arg = "failed"
        /\ loc[p].trace[Len(loc[p].trace)] =
             [op |-> "send", arg |-> "not_a_car", ok |-> TRUE]

\* A webhook handler for an event of the given kind has returned.
Handled(p, kind) == pc[p] = "H_return" /\ loc[p].before.kind = kind

\* The notifier calls made since the handler of p was entered.
SentBy(p) == SubSeq(outbox, loc[p].before.out + 1, Len(outbox))

HasSent(p, kind) == \E i \in 1..Len(SentBy(p)) : SentBy(p)[i].kind = kind

\* C11: no error leaves processSession: an error raised inside it never
\* reaches pollExpiredSessions.
C11_NoErrorEscapes == \A p \in Scanners : pc[p] # "PS_throw"

\* C12: when handleConfirmation has gone through its catch block (it has
\* sent the generic failure message), the session is deleted on return.
C12_CatchDeletesSession ==
    \A p \in Webhooks :
        (Handled(p, "confirm_post") /\ HasSent(p, "processing_error"))
        => ~Exists(store[loc[p].phone])

\* C13: when handleConfirmation found no dealer and has told the user so,
\* no record was persisted and the session is still stored in 'confirming'.
C13_NoDealerKeepsSession ==
    \A p \in Webhooks :
        (Handled(p, "confirm_post") /\ HasSent(p, "no_dealer")
         /\ ~HasSent(p, "processing_error"))
        => /\ Len(listings) = loc[p].before.lst
           /\ store[loc[p].phone].status = "confirming"

\* C14: handleConfirmation called while the stored session is absent or not
\* in 'confirming' with extracted data calls no collaborator and leaves the
\* store unchanged; whenever it persists a record, relocates media or
\* deletes the session, the stored session was in 'confirming' with
\* extracted data when it was called.
C14_ConfirmationGuard ==
    \A p \in Webhooks :
        loc[p].before.kind = "confirm_post" =>
            /\ ~IsConfirming(loc[p].before.session) =>
                /\ pc[p] \in {"HC_get", "H_return"}
                /\ store[loc[p].phone] = loc[p].before.session
                /\ Armed(loc[p].phone) => loc[p].before.timer # "none"
                /\ Len(outbox) = loc[p].before.out
                /\ Len(listings) = loc[p].before.lst
                /\ tagDeletes[loc[p].phone] = loc[p].before.tags
            /\ (Len(listings) # loc[p].before.lst
                \/ store[loc[p].phone] # loc[p].before.session)
               => loc[p].before.session.status = "confirming"
                  /\ loc[p].before.session.extracted_data.present

C14_Witness ==
    \E p \in Webhooks :
        /\ Handled(p, "confirm_post")
        /\ loc[p].before.session.status = "collecting"
        /\ Len(loc[p].before.session.images) >= MIN_IMAGES

\* C15: every persisted record had its media relocated before it was
\* persisted.
C15_RelocateThenPersist ==
    \A i \in 1..Len(listings) : listings[i].moved

\* C16: when handleCancellation has returned, whatever the session's state
\* was, the sender has no session and no marker in the store, one
\* delete-by-tag request for the sender's media has been made, and the one
\* message sent is the cancelled outcome.
C16_CancelTearsDown ==
    \A p \in Webhooks :
        Handled(p, "cancel_listing") =>
            /\ ~Exists(store[loc[p].phone])
            /\ ~Armed(loc[p].phone)
            /\ tagDeletes[loc[p].phone] = loc[p].before.tags + 1
            /\ Len(SentBy(p)) = 1
            /\ SentBy(p)[1].kind = "cancelled"
            /\ Len(listings) = loc[p].before.lst

C16_Witness ==
    \E p \in Webhooks :
        /\ Handled(p, "cancel_listing")
        /\ loc[p].before.session.status = "confirming"
        /\ loc[p].before.tags = 0
        /\ tagDeletes[loc[p].phone] = 1

\* The marker has not been armed since the handler of p was entered.
NotRearmed(p) == timer[loc[p].phone] = "full" => loc[p].before.timer = "full"

\* A text that neither starts with a digit nor contains an m or a k.
NotAnAmount(text) ==
    /\ ~(Len(text) > 0 /\ IsDigit(text[1]))
    /\ \A i \in 1..Len(text) : text[i] \notin {"m", "M", "k", "K"}

\* C17 as stated: the text "6m" for a confirming session sets the price to
\* 6000000 and changes no other field of the stored session.
C17_Original ==
    \A p \in Webhooks :
        (Handled(p, "text") /\ IsConfirming(loc[p].before.session)
         /\ loc[p].text = <<"6", "m">>)
        => store[loc[p].phone] =
             [loc[p].before.session EXCEPT !.extracted_data.price = 6000000]

\* C17, amended: the text "6m" for a confirming session sets the price to
\* 6000000 and refreshes last_updated; status, text, images and the other
\* extracted fields are unchanged, the one message sent is a confirmation
\* prompt, and the marker is not armed.
C17_PriceCorrection ==
    \A p \in Webhooks :
        (Handled(p, "text") /\ IsConfirming(loc[p].before.session)
         /\ loc[p].text = <<"6", "m">>)
        => /\ store[loc[p].phone] =
                [loc[p].before.session EXCEPT !.extracted_data.price = 6000000,
                                              !.last_updated = now]
           /\ now > loc[p].before.session.last_updated
           /\ store[loc[p].phone].status = "confirming"
           /\ Len(SentBy(p)) = 1
           /\ SentBy(p)[1].kind = "confirmation"
           /\ NotRearmed(p)

C17_Witness ==
    \E p \in Webhooks :
        /\ Handled(p, "text")
        /\ loc[p].text = <<"6", "m">>
        /\ loc[p].before.session.status = "confirming"
        /\ loc[p].before.session.extracted_data.price = 5000000
        /\ store[loc[p].phone].extracted_data.price = 6000000

\* C18: a price-like text that parsePrice rejects ("Camry"), sent for a
\* confirming session, leaves the stored session and the marker as they
\* were; the one message sent is the re-prompt.
C18_RejectedPrice ==
    \A p \in Webhooks :
        (Handled(p, "text") /\ IsConfirming(loc[p].before.session)
         /\ loc[p].text = <<"C", "a", "m", "r", "y">>)
        => /\ store[loc[p].phone] = loc[p].before.session
           /\ NotRearmed(p)
           /\ Len(SentBy(p)) = 1
           /\ SentBy(p)[1].kind = "price_reprompt"

C18_Witness ==
    \E p \in Webhooks :
        /\ Handled(p, "text")
        /\ loc[p].text = <<"C", "a", "m", "r", "y">>
        /\ loc[p].before.session.status = "confirming"
        /\ HasSent(p, "price_reprompt")

\* C19: a text that does not resemble an amount, received while the
\* sender's session is confirming, leaves the stored session and the marker
\* as they were and is not handled as a price correction, whichever webhook
\* (webhookController.ts or api/webhook.ts) receives it.
C19_OtherTextIgnored ==
    \A p \in Webhooks :
        (pc[p] = "H_return" /\ loc[p].before.kind \in {"text", "vercel_text"}
         /\ IsConfirming(loc[p].before.session) /\ NotAnAmount(loc[p].text))
        => /\ store[loc[p].phone] = loc[p].before.session
           /\ NotRearmed(p)
           /\ ~HasSent(p, "confirmation")
           /\ ~HasSent(p, "price_reprompt")

\* The event of p has been accepted: the stored session is the collecting
\* session found on arrival (a fresh one if none was collecting) with the
\* event's image or text appended.
Accepted(p) ==
    LET session == store[loc[p].phone]
        prior == IF loc[p].before.session.status = "collecting"
                 THEN loc[p].before.session ELSE NewSession
    IN  /\ session.status = "collecting"
        /\ \/ /\ loc[p].before.kind = "image"
              /\ session.images = Append(prior.images, loc[p].image)
           \/ /\ loc[p].before.kind = "text"
              /\ session.text_buffer = Append(prior.text_buffer, loc[p].text)

\* C20: when the handler of an accepted text or image event returns, the
\* sender's marker is armed with its full window and the stored session's
\* last_updated is the time of the handler's save.
C20_AcceptedEventArmsMarker ==
    [][\A p \in Webhooks :
        (pc[p] # "H_return" /\ pc'[p] = "H_return" /\ Accepted(p)')
        => /\ timer'[loc[p].phone] = "full"
           /\ store'[loc[p].phone].last_updated = now'
           /\ now' > loc[p].before.session.last_updated]_vars

C20_Witness ==
    \E p \in Webhooks :
        /\ Handled(p, "image")
        /\ Accepted(p)
        /\ loc[p].before.timer = "running"
        /\ timer[loc[p].phone] = "full"
        /\ Len(store[loc[p].phone].images) = MIN_IMAGES + 1

\* C21: in every state, a sender without a session in the store has no
\* armed debounce marker.
C21_NoMarkerWithoutSession ==
    \A s \in Senders : ~Exists(store[s]) => ~Armed(s)

\* C22: when an error ends a scanner run, processSession has been invoked
\* for every sender the run had selected: none is left unprocessed.
C22_OtherSendersProcessed ==
    \A p \in Scanners : pc[p] = "PS_throw" => loc[p].expired = <<>>

\* C23: addTextToBuffer / addImageToBuffer never decide to create a fresh
\* session because the stored record could not be read: a record that is
\* there but unreadable is never taken for 'no session'.
C23_NoSessionFabricated ==
    [][\A p \in Webhooks :
        (pc[p] = "RB_get" /\ pc'[p] = "RB_create")
        => store[loc[p].phone].status # "unreadable"]_vars

\* C24: a failed notifier call does not change the session: when
\* processSession ends after the confirmation prompt for a valid extraction
\* could not be sent, the session is still stored in 'confirming'.
C24_SendFailureKeepsSession ==
    \A p \in Scanners :
        (/\ pc[p] \in {"PS_return", "PS_throw"}
         /\ \E i \in 1..Len(loc[p].trace) :
                loc[p].trace[i] = [op |-> "send", arg |-> "confirmation", ok |-> FALSE])
        => store[loc[p].phone].status = "confirming"

\* C25: a failed media deletion is not re-thrown.  After a failed
\* delete-by-tag request processSession goes on to delete the session and to
\* send its insufficient-input or not-recognized outcome, after a failed
\* deletion of the excess images it goes on to the extraction call, and
\* handleCancellation goes on to delete the session and the marker and to
\* send the cancelled outcome.
C25_CleanupBestEffort ==
    /\ \A p \in Scanners :
        pc[p] = "PS_return" =>
            \A i \in 1..Len(loc[p].trace) :
                ~loc[p].trace[i].ok =>
                    /\ loc[p].trace[i].op = "deleteSessionImages" =>
                        /\ Len(loc[p].trace) >= i + 2
                        /\ loc[p].trace[i + 1].op = "clearSession"
                        /\ loc[p].trace[i + 2].op = "send"
                        /\ loc[p].trace[i + 2].arg \in {"insufficient_images", "not_a_car"}
                    /\ loc[p].trace[i].op = "deleteImages" =>
                        /\ Len(loc[p].trace) > i
                        /\ loc[p].trace[i + 1].op = "extractVehicleData"
    /\ \A p \in Webhooks :
        (Handled(p, "cancel_listing") /\ loc[p].trace # <<>>) =>
            /\ ~Exists(store[loc[p].phone])
            /\ ~Armed(loc[p].phone)
            /\ Len(SentBy(p)) = 1
            /\ SentBy(p)[1].kind = "cancelled"

C25_Witness ==
    /\ \E p \in Scanners :
        /\ pc[p] = "PS_return"
        /\ Len(loc[p].trace) = 3
        /\ loc[p].trace[1] = [op |-> "deleteSessionImages", arg |-> "", ok |-> FALSE]
        /\ loc[p].trace[3] = [op |-> "send", arg |-> "insufficient_images", ok |-> TRUE]
    /\ \A s \in Senders : ~Exists(store[s])

\* C26: with the scanner started again and again and the sender's events
\* bounded, a collecting session with at least one image leads to a session
\* that is confirming or deleted, and a processing session does not stay
\* processing.
C26_EventuallyResolved ==
    \A s \in Senders :
        /\ (store[s].status = "collecting" /\ Len(store[s].images) > 0)
             ~> (store[s].status \in {"confirming", "absent"})
        /\ (store[s].status = "processing") ~> (store[s].status # "processing")

C26_Witness ==
    \E p \in Scanners :
        /\ pc[p] = "PS_return"
        /\ Len(loc[p].session.images) = MIN_IMAGES
        /\ store[loc[p].phone].status = "confirming"
        /\ budget = MaxLiveEvents

\* The handler of p has returned from a text or image event that found the
\* session collecting and was buffered.
AcceptedWhileCollecting(p) ==
    /\ pc[p] = "H_return"
    /\ loc[p].before.session.status = "collecting"
    /\ \/ loc[p].before.kind = "image" /\ loc[p].image # 0
       \/ loc[p].before.kind = "text" /\ ~IsHelpCommand(loc[p].text)

\* The item of p's event is in the stored session, an image exactly once.
ItemKept(p) ==
    LET session == store[loc[p].phone]
    IN  IF loc[p].before.kind = "image"
        THEN Cardinality({i \in 1..Len(session.images) :
                            session.images[i] = loc[p].image}) = 1
        ELSE \E i \in 1..Len(session.text_buffer) :
                session.text_buffer[i] = loc[p].text

\* C27: when two webhook invocations, possibly overlapping, have both
\* buffered an event for a collecting session, the stored session holds the
\* items of both.
C27_NoLostItem ==
    \A p, q \in Webhooks :
        (p # q /\ AcceptedWhileCollecting(p) /\ AcceptedWhileCollecting(q))
        => ItemKept(p) /\ ItemKept(q)

\* C28: no stored session has status 'completed' or 'cancelled': a session
\* in the store is collecting, processing or confirming.
C28_NoTerminalStatusStored ==
    \A s \in Senders :
        Exists(store[s]) => store[s].status \in {"collecting", "processing", "confirming"}

C28_Witness ==
    \E p \in Webhooks :
        /\ Handled(p, "confirm_post")
        /\ Len(listings) = 1
        /\ listings[1].media # <<>>
        /\ outbox[Len(outbox)] = [to |-> loc[p].phone, kind |-> "listing_created",
                                   n |-> 0, ok |-> TRUE]
        /\ ~Exists(store[loc[p].phone])

\* parsePrice has been called twice on the text of p.
Parsed(p) == pc[p] = "PP_done"

\* A text of digits with at most one decimal point and at least one digit.
IsDecimal(text) ==
    /\ \A i \in 1..Len(text) : IsDigit(text[i]) \/ text[i] = "."
    /\ Cardinality({i \in 1..Len(text) : text[i] = "."}) <= 1
    /\ \E i \in 1..Len(text) : IsDigit(text[i])

\* The number written by a sequence of digits.
RECURSIVE IntOf(_)
IntOf(digits) ==
    IF digits = <<>> THEN 0
    ELSE 10 * IntOf(SubSeq(digits, 1, Len(digits) - 1)) + DigitVal(digits[Len(digits)])

\* A decimal text times mult, rounded to the nearest integer.
DecimalRound(text, mult) ==
    LET digits == SelectSeq(text, IsDigit)
        dot == IF \E i \in 1..Len(text) : text[i] = "."
               THEN CHOOSE i \in 1..Len(text) : text[i] = "."
               ELSE Len(text)
        scale == Pow10(Len(text) - dot)
    IN  (2 * IntOf(digits) * mult + scale) \div (2 * scale)

\* C29: parsePrice maps "5000000" to 5000000, "2.5m" to 2500000,
\* "N 1,200,000" (with the naira sign) to 1200000 and "abc" to null; a decimal
\* number followed by m or M yields the number times 1,000,000 and followed
\* by k or K the number times 1,000, rounded to the nearest integer; and two
\* calls on the same text yield the same result.
C29_ParsePriceExamples ==
    \A p \in Webhooks :
        Parsed(p) =>
            LET text == loc[p].text
                result == loc[p].extraction.price
                body == SubSeq(text, 1, Len(text) - 1)
            IN  /\ result = loc[p].image
                /\ text = <<"5", "0", "0", "0", "0", "0", "0">> => result = 5000000
                /\ text = <<"5", "m">> => result = 5000000
                /\ text = <<"2", ".", "5", "m">> => result = 2500000
                /\ text = <<"\\u20a6", " ", "1", ",", "2", "0", "0", ",", "0", "0", "0">>
                     => result = 1200000
                /\ text = <<"a", "b", "c">> => result = Null
                /\ (Len(text) > 1 /\ IsDecimal(body)) =>
                     /\ text[Len(text)] \in {"m", "M"} => result = DecimalRound(body, 1000000)
                     /\ text[Len(text)] \in {"k", "K"} => result = DecimalRound(body, 1000)

C29_Witness ==
    \E p \in Webhooks :
        /\ Parsed(p)
        /\ loc[p].text = <<"2", ".", "5", "m">>
        /\ loc[p].extraction.price = 2500000

\* What is left of a text when the currency characters, the thousands
\* separators, the blanks and one trailing m or k have been taken away.
Remainder(text) ==
    LET cleaned == SelectSeq(text,
                       LAMBDA c : c \notin {"\\u20a6", "N", "n", "G", "g", ",", " "})
    IN  IF Len(cleaned) > 0 /\ cleaned[Len(cleaned)] \in {"m", "M", "k", "K"}
        THEN SubSeq(cleaned, 1, Len(cleaned) - 1)
        ELSE cleaned

\* C30: parsePrice returns a number only when what is left of the text, after
\* currency characters, separators, blanks and a trailing m or k are taken
\* away, is a decimal number; otherwise it returns null.
C30_NullOnRemainder ==
    \A p \in Webhooks :
        Parsed(p) => (loc[p].extraction.price # Null => IsDecimal(Remainder(loc[p].text)))

\* C31: for one confirming session at most one listing is persisted, however
\* many confirm_post events arrive and however their handlers interleave.
C31_OneRecordPerSession ==
    \A i, j \in 1..Len(listings) :
        (listings[i].phone = listings[j].phone
         /\ listings[i].images = listings[j].images) => i = j

\* C32: processSession never passes its guard for a sender while a handler
\* of that sender has saved its event to the session and has not yet armed
\* the marker.
C32_GapNotObserved ==
    [][\A p \in Scanners :
        (pc[p] = "PS_get" /\ pc'[p] = "PS_status_get")
        => ~(\E w \in Webhooks :
                /\ pc[w] \in {"HT_timer", "HI_timer"}
                /\ loc[w].phone = loc[p].phone)]_vars

\* C33: when processSession sends the confirmation prompt, the sender's
\* stored session is awaiting confirmation and holds the extraction result
\* the prompt shows.
C33_PromptOnlyForStoredResult ==
    [][\A p \in Scanners :
        (pc[p] = "PS_confirm_send" /\ Len(outbox') > Len(outbox))
        => /\ IsConfirming(store[loc[p].phone])
           /\ store[loc[p].phone].extracted_data = loc[p].extraction]_vars

\* C34: every listing persisted by handleConfirmation carries at least
\* MIN_IMAGES and at most MAX_IMAGES media items.
C34_ListingMediaBounds ==
    \A i \in 1..Len(listings) :
        /\ Len(listings[i].images) >= MIN_IMAGES
        /\ Len(listings[i].images) <= MAX_IMAGES

\* C35: once processSession has trimmed a session of more than MAX_IMAGES
\* images, the stored session holds exactly the kept images.
C35_StoredImagesAreKept ==
    \A p \in Scanners :
        (/\ pc[p] \in {"PS_extract", "PS_data_get", "PS_data_save", "PS_confirm_send"}
         /\ Len(loc[p].session.images) > MAX_IMAGES
         /\ Exists(store[loc[p].phone]))
        => store[loc[p].phone].images
             = deleteExcessImages(loc[p].session.images, MAX_IMAGES).kept


\* C36: a teardown requests deletion only of media of the session it tears
\* down, never of a newer session's media: when an image event opens a fresh
\* session, no delete-by-tag request has covered the asset it brings.
C36_TeardownSparesNewerSession ==
    [][\A w \in Webhooks :
        (pc[w] = "AI_create" /\ pc'[w] = "AI_save")
        => loc[w].image \notin deletedByTag]_vars
\* C37: a store write that finds the sender's session gone does not bring
\* back items of a deleted session: it stores at most the one item that the
\* writer's own event brought.
C37_NoResurrection ==
    [][\A s \in Senders :
        (~Exists(store[s]) /\ Exists(store'[s]))
        => Len(store'[s].images) + Len(store'[s].text_buffer) <= 1]_vars

\* C38: when a step removes a sender's session from the store, or replaces
\* it by a fresh one, and the step is not the finalization's clearSession,
\* a delete-by-tag request has covered every image of that session.
C38_RemovedMediaDeleted ==
    [][\A s \in Senders :
        (/\ Exists(store[s])
         /\ store[s].images # <<>>
         /\ ~Exists(store'[s]) \/ store'[s].images = <<>>
         /\ ~(\E p \in Webhooks : pc[p] = "HC_clear" /\ loc[p].phone = s))
        => \A i \in 1..Len(store[s].images) :
               store[s].images[i] \in deletedByTag']_vars

\* C39: a step that finds a session awaiting confirmation and leaves a
\* session in the store leaves it awaiting confirmation, with the same
\* images and the same extracted data (the price may have been corrected).
C39_ConfirmingNotReplaced ==
    [][\A s \in Senders :
        (IsConfirming(store[s]) /\ Exists(store'[s]))
        => /\ IsConfirming(store'[s])
           /\ store'[s].images = store[s].images
           /\ store'[s].extracted_data =
                [store[s].extracted_data EXCEPT
                    !.price = store'[s].extracted_data.price]]_vars

\* The sender is among those the scanner run has selected after the step:
\* still in expiredPhones, or handed to processSession by this very step.
SelectedAfter(p, s) ==
    \/ \E i \in 1..Len(loc'[p].expired) : loc'[p].expired[i] = s
    \/ pc'[p] = "PS_get" /\ loc'[p].phone = s

\* C40: a scanner run looks at a sender's session only when it found the
\* marker not armed, selects the sender only if the session it then reads is
\* collecting with at least one image, and calls processSession only for
\* senders it has selected.
C40_SelectsOnlyReady ==
    [][\A p \in Scanners :
        LET s == loc[p].phone
        IN  /\ (pc[p] = "PE_exists" /\ Armed(s)) => pc'[p] # "PE_session"
            /\ pc[p] = "PE_exists" => ~SelectedAfter(p, s)
            /\ (/\ pc[p] = "PE_session" /\ pc'[p] # "PE_session"
                /\ ~(/\ store[s].status = "collecting"
                     /\ Len(store[s].images) >= 1))
               => ~SelectedAfter(p, s)
            /\ (pc[p] # "PS_get" /\ pc'[p] = "PS_get")
               => \/ \E i \in 1..Len(loc[p].expired) : loc[p].expired[i] = loc'[p].phone
                  \/ pc[p] = "PE_session" /\ loc'[p].phone = s]_vars

\* A scanner run calls processSession for a sender whose marker has lapsed
\* and whose collecting session holds images.
C40_Witness ==
    \E p \in Scanners :
        /\ pc[p] = "PS_get"
        /\ ~Armed(loc[p].phone)
        /\ store[loc[p].phone].status = "collecting"
        /\ Len(store[loc[p].phone].images) >= 1

====
